---- MODULE Spec2Model ----
(***************************************************************************)
(* A model of the CSV motion segmentation tool (separate.py) and of the    *)
(* derivative script (roc.py).                                             *)
(*                                                                         *)
(* A DataFrame is a record                                                 *)
(*   [columns : sequence of column names,                                  *)
(*    dtypes  : column name -> "int64" | "float64" | "object",             *)
(*    index   : sequence of row labels,                                    *)
(*    rows    : sequence of rows, a row being column name -> cell].        *)
(* A cell is a sequence: <<>> is NaN (a missing value), <<v>> the number   *)
(* v, <<n, d>> the float quotient n / d (d = 0 and n # 0: an infinity).    *)
(* Timestamps are whole multiples of one time unit, so that differences    *)
(* and comparisons with the threshold are exact.                           *)
(***************************************************************************)
EXTENDS Integers, Sequences, FiniteSets, TLC

VARIABLES
  pc,          \* the position of the run
  input_file,  \* the input CSV file: [readable, table]
  args,        \* the command line, or the arguments of the call
  fs0,         \* the output directory as the run found it
  fs,          \* the output directory
  df,          \* the table loaded
  sorted_df,   \* segment_data's df after sort_values and reset_index
  segments,    \* the segments returned by segment_data
  raised,      \* the exception the last stage raised, or "none"
  metadata,    \* the metadata dict save_segment_files built
  stages,      \* the stages begun, in order
  messages,    \* the lines main reported
  result,      \* how main ended
  ranking,     \* the ranker's variations and dominant columns
  out_df       \* the derivative script's output table

vars == <<pc, input_file, args, fs0, fs, df, sorted_df, segments, raised,
          metadata, stages, messages, result, ranking, out_df>>

\* ------------------------------------------------------------------ bounds
\* Tables passed to segment_data: at most MaxRows rows, timestamps 0..MaxTime.
MaxRows == 4
MaxTime == 4
\* Thresholds 1..MaxThreshold.
MaxThreshold == 2
\* Input files of the command: at most MaxFileRows rows, timestamps
\* 0..MaxFileTime.
MaxFileRows == 3
MaxFileTime == 2
\* Tables passed to the ranker: at most MaxRankRows rows and MaxRankCols
\* value columns, top_n in 0..MaxTopN.
MaxRankRows == 3
MaxRankCols == 3
MaxTopN == 2
\* Tables cut into the segments passed to save_segment_files: MaxSaveRows
\* rows and at most MaxSaveCols value columns.
MaxSaveRows == 4
MaxSaveCols == 6
\* Tables read by the derivative script: at most MaxRocRows rows, timestamps
\* 0..MaxRocTime, at most MaxRocCols value columns.
MaxRocRows == 3
MaxRocTime == 2
MaxRocCols == 2

\* ------------------------------------------------------------ data frames
NaN == <<>>

Null == [columns |-> <<>>, dtypes |-> <<>>, index |-> <<>>, rows |-> <<>>]

NRows(d) == Len(d.rows)

ColumnSet(d) == {d.columns[k] : k \in 1..Len(d.columns)}

\* d.iloc[a:b] with 0-based a, b (b exclusive): the rows keep their labels.
Iloc(d, a, b) ==
  [d EXCEPT !.rows = SubSeq(d.rows, a + 1, b),
            !.index = SubSeq(d.index, a + 1, b)]

\* reset_index(drop=True): the labels become 0 .. n-1.
ResetIndex(d) == [d EXCEPT !.index = [i \in 1..NRows(d) |-> i - 1]]

\* The orders of the rows in S by ascending key, rows of equal key in any
\* relative order.
RECURSIVE AscendingOrders(_, _, _)
AscendingOrders(d, col, S) ==
  IF S = {} THEN {<<>>}
  ELSE LET least == {i \in S : \A j \in S : d.rows[i][col][1] <= d.rows[j][col][1]}
       IN  UNION {{<<i>> \o rest : rest \in AscendingOrders(d, col, S \ {i})} :
                    i \in least}

\* The frames DataFrame.sort_values(col) may return.  Its default sort is
\* kind='quicksort', which is not stable: rows with equal keys come out in
\* any relative order.
SortValues(d, col) ==
  {[d EXCEPT !.rows = [i \in 1..NRows(d) |-> d.rows[p[i]]],
             !.index = [i \in 1..NRows(d) |-> d.index[p[i]]]] :
     p \in AscendingOrders(d, col, 1..NRows(d))}

\* --------------------------------------------------------- segment_data
\* time_diff > threshold (GapExceedsGE: the comparison written >=)
GapExceedsGE(time_diff, threshold) == time_diff >= threshold

GapExceeds(time_diff, threshold) == time_diff > threshold

\* len(segment) > 1 (KeepSegmentAll: the test left out)
KeepSegmentAll(segment) == TRUE

KeepSegment(segment) == NRows(segment) > 1

AppendIfKept(segs, segment) ==
  IF KeepSegment(segment) THEN Append(segs, segment) ELSE segs

\* The loop over i in range(1, len(df)) and the final segment; i and
\* segment_start are the code's 0-based positions.
RECURSIVE ScanGaps(_, _, _, _, _, _)
ScanGaps(d, col, threshold, i, segment_start, segs) ==
  IF i < NRows(d)
  THEN LET time_diff == d.rows[i + 1][col][1] - d.rows[i][col][1]
       IN  IF GapExceeds(time_diff, threshold)
           THEN ScanGaps(d, col, threshold, i + 1, i,
                         AppendIfKept(segs, Iloc(d, segment_start, i)))
           ELSE ScanGaps(d, col, threshold, i + 1, segment_start, segs)
  ELSE IF segment_start < NRows(d)
       THEN AppendIfKept(segs, Iloc(d, segment_start, NRows(d)))
       ELSE segs

\* timestamp_col not in df.columns (ColumnMissingAlways: the test always true)
ColumnMissingAlways(d, col) == TRUE

ColumnMissing(d, col) == col \notin ColumnSet(d)

\* The outcomes of segment_data(df, timestamp_col, threshold): a raised
\* ValueError, or the sorted frame and the segments cut from it.
segment_data(d, timestamp_col, threshold) ==
  IF ColumnMissing(d, timestamp_col)
  THEN {[raised |-> "ValueError", sorted |-> Null, segments |-> <<>>]}
  ELSE {[raised |-> "none", sorted |-> s,
         segments |-> ScanGaps(s, timestamp_col, threshold, 1, 0, <<>>)] :
          s \in {ResetIndex(x) : x \in SortValues(d, timestamp_col)}}

\* ------------------------------------------------- numbers of the ranker
\* A metric is the non-negative float sqrt(p / q) (q > 0), or NaN; type is
\* the Python type that holds it.
Root(type, p, q) == [type |-> type, nan |-> FALSE, p |-> p, q |-> q]

NaNFloat == [type |-> "numpy.float64", nan |-> TRUE, p |-> 0, q |-> 1]

\* a * b on floats: NaN if either is NaN.
Mul(a, b) ==
  IF a.nan \/ b.nan THEN NaNFloat
  ELSE Root("numpy.float64", a.p * b.p, a.q * b.q)

\* a < b on floats: every comparison with NaN is False.
FloatLT(a, b) == ~a.nan /\ ~b.nan /\ a.p * b.q < b.p * a.q

\* float(v)
Float(v) == [v EXCEPT !.type = "float"]

RECURSIVE SumSeq(_)
SumSeq(s) == IF s = <<>> THEN 0 ELSE Head(s) + SumSeq(Tail(s))

SeqMax(s) == CHOOSE x \in {s[i] : i \in 1..Len(s)} : \A i \in 1..Len(s) : s[i] <= x

SeqMin(s) == CHOOSE x \in {s[i] : i \in 1..Len(s)} : \A i \in 1..Len(s) : x <= s[i]

\* Series.dropna() of column col, as the sequence of its numbers.
DropNa(d, col) ==
  LET present == SelectSeq(d.rows, LAMBDA r : r[col] # NaN)
  IN  [i \in 1..Len(present) |-> present[i][col][1]]

\* Series.std(): the sample standard deviation (ddof = 1), NaN for one value.
\* sum((x - mean)^2) / (n - 1) = (n * sum(x^2) - sum(x)^2) / (n * (n - 1)).
Std(data) ==
  LET n == Len(data)
      sq == [i \in 1..n |-> data[i] * data[i]]
  IN  IF n < 2 THEN NaNFloat
      ELSE Root("numpy.float64",
                n * SumSeq(sq) - SumSeq(data) * SumSeq(data), n * (n - 1))

\* data.max() - data.min(), of the column's dtype.
Range(data, dtype) ==
  LET r == SeqMax(data) - SeqMin(data)
  IN  Root("numpy." \o dtype, r * r, 1)

\* pd.api.types.is_numeric_dtype
IsNumericDtype(dtype) == dtype \in {"int64", "float64"}

\* --------------------------------------------- calculate_column_variation
\* The dict is kept as the sequence of its items, in insertion order.
SkipsColumn(d, col, exclude_columns) ==
  \/ col \in exclude_columns
  \/ ~IsNumericDtype(d.dtypes[col])
  \/ DropNa(d, col) = <<>>

VariationOf(d, col) ==
  LET data == DropNa(d, col)
      std_dev == Std(data)
      range_val == Range(data, d.dtypes[col])
  IN  [col |-> col, std |-> std_dev, range |-> range_val,
       combined_score |-> Mul(std_dev, range_val)]

RECURSIVE ColumnLoop(_, _, _, _)
ColumnLoop(d, exclude_columns, k, variations) ==
  IF k > Len(d.columns) THEN variations
  ELSE IF SkipsColumn(d, d.columns[k], exclude_columns)
       THEN ColumnLoop(d, exclude_columns, k + 1, variations)
       ELSE ColumnLoop(d, exclude_columns, k + 1,
                       Append(variations, VariationOf(d, d.columns[k])))

calculate_column_variation(d, exclude_columns) ==
  ColumnLoop(d, exclude_columns, 1, <<>>)

\* ------------------------------------------------- find_dominant_columns
Reverse(s) == [i \in 1..Len(s) |-> s[Len(s) + 1 - i]]

\* The comparison sorted() makes between two items: key(x) < key(y).
KeyLT(x, y) == FloatLT(x.combined_score, y.combined_score)

\* CPython's list.sort on a list shorter than 64 items: count_run finds the
\* leading run (reversed when strictly descending), binarysort inserts the
\* rest.  Positions are 0-based as in listobject.c.
RECURSIVE RunEnd(_, _, _)
RunEnd(a, lo, descending) ==
  IF lo < Len(a) /\ (KeyLT(a[lo + 1], a[lo]) <=> descending)
  THEN RunEnd(a, lo + 1, descending)
  ELSE lo

RECURSIVE BinarySearch(_, _, _, _)
BinarySearch(a, pivot, l, r) ==
  IF l < r
  THEN LET p == l + ((r - l) \div 2)
       IN  IF KeyLT(pivot, a[p + 1])
           THEN BinarySearch(a, pivot, l, p)
           ELSE BinarySearch(a, pivot, p + 1, r)
  ELSE l

RECURSIVE BinarySort(_, _)
BinarySort(a, start) ==
  IF start >= Len(a) THEN a
  ELSE LET pivot == a[start + 1]
           l == BinarySearch(a, pivot, 0, start)
       IN  BinarySort(SubSeq(a, 1, l) \o <<pivot>> \o SubSeq(a, l + 1, start)
                        \o SubSeq(a, start + 2, Len(a)),
                      start + 1)

ListSort(a) ==
  IF Len(a) < 2 THEN a
  ELSE LET descending == KeyLT(a[2], a[1])
           n == RunEnd(a, 2, descending)
           b == IF descending
                THEN Reverse(SubSeq(a, 1, n)) \o SubSeq(a, n + 1, Len(a))
                ELSE a
       IN  BinarySort(b, n)

\* sorted(items, key=..., reverse=True): the list is reversed, sorted
\* ascending and reversed again, which keeps equal keys in their order.
SortedReverse(items) == Reverse(ListSort(Reverse(items)))

\* sorted_cols[:top_n] (TakeAll: the slice left out)
TakeAll(s, top_n) == s

Take(s, top_n) == SubSeq(s, 1, IF top_n < Len(s) THEN top_n ELSE Len(s))

find_dominant_columns(variations, top_n) ==
  IF variations = <<>> THEN <<>>
  ELSE LET sorted_cols == Take(SortedReverse(variations), top_n)
       IN  [k \in 1..Len(sorted_cols) |-> sorted_cols[k].col]

\* --------------------------------------------------- the output directory
\* fs is [exists : whether the output directory exists,
\*        files  : file name -> content].  A content is
\* [kind : "csv" | "json" | "truncated", columns, rows, meta].
NoFiles == [f \in {} |-> 0]

CsvFile(d) ==
  [kind |-> "csv", columns |-> d.columns, rows |-> d.rows, meta |-> <<>>]

JsonFile(doc) ==
  [kind |-> "json", columns |-> <<>>, rows |-> <<>>, meta |-> <<doc>>]

\* A file opened for writing (so emptied) whose write did not complete.
Truncated == [kind |-> "truncated", columns |-> <<>>, rows |-> <<>>, meta |-> <<>>]

WriteFile(files, name, content) == (name :> content) @@ files

Digit(k) == <<"0", "1", "2", "3", "4", "5", "6", "7", "8", "9">>[k + 1]

RECURSIVE IntStr(_)
IntStr(k) == IF k < 10 THEN Digit(k) ELSE IntStr(k \div 10) \o Digit(k % 10)

\* f"{k:03d}"
Format03d(k) ==
  IF k < 10 THEN "00" \o IntStr(k)
  ELSE IF k < 100 THEN "0" \o IntStr(k) ELSE IntStr(k)

\* f"{base_filename}_segment_{i+1:03d}.csv"
SegmentFilename(base_filename, k) ==
  base_filename \o "_segment_" \o Format03d(k) \o ".csv"

\* f"{base_filename}_metadata.json"
MetadataFilename(base_filename) == base_filename \o "_metadata.json"

\* ------------------------------------------------------ save_segment_files
\* The faults the environment may raise during one call: none, mkdir
\* failing, opening or writing the k-th segment file failing, opening or
\* writing the metadata document failing.
Faults(n) ==
  {[at |-> a, k |-> 0] : a \in {"none", "mkdir", "json_open", "json_write"}}
    \cup {[at |-> a, k |-> k] : a \in {"csv_open", "csv_write"}, k \in 1..n}

\* str(x) of a timestamp cell.
Str(cell) == [type |-> "str", v |-> cell[1]]

\* end_time - start_time of a numeric column: a numpy scalar of its dtype.
\* DurationReversed: start_time - end_time in place of end_time - start_time.
DurationReversed(segment, timestamp_col) ==
  [type |-> "numpy." \o segment.dtypes[timestamp_col],
   v |-> segment.rows[1][timestamp_col][1]
           - segment.rows[NRows(segment)][timestamp_col][1]]

Duration(segment, timestamp_col) ==
  [type |-> "numpy." \o segment.dtypes[timestamp_col],
   v |-> segment.rows[NRows(segment)][timestamp_col][1]
           - segment.rows[1][timestamp_col][1]]

\* top_n of the metadata export
TopNMetadata == 5

\* {k: float(v) for k, v in variations[col].items()} for the dominant columns
TopVariations(variations, dominant_cols) ==
  [k \in 1..Len(dominant_cols) |->
     LET v == CHOOSE x \in {variations[j] : j \in 1..Len(variations)} :
                 x.col = dominant_cols[k]
     IN  [col |-> v.col, std |-> Float(v.std), range |-> Float(v.range),
          combined_score |-> Float(v.combined_score)]]

SampleCount(segment) == NRows(segment)

SegmentInfo(segment, i, base_filename, timestamp_col) ==
  LET variations == calculate_column_variation(segment, {timestamp_col})
      dominant_cols == find_dominant_columns(variations, TopNMetadata)
  IN  [segment_id |-> i + 1,
       filename |-> SegmentFilename(base_filename, i + 1),
       start_time |-> Str(segment.rows[1][timestamp_col]),
       end_time |-> Str(segment.rows[NRows(segment)][timestamp_col]),
       duration_seconds |-> Duration(segment, timestamp_col),
       sample_count |-> SampleCount(segment),
       dominant_columns |-> dominant_cols,
       column_variations |-> TopVariations(variations, dominant_cols)]

\* json.dump raises TypeError on a numpy.int64, the type of the duration of
\* an integer timestamp column.
JsonSerializable(doc) ==
  \A k \in 1..Len(doc.segments) :
     doc.segments[k].duration_seconds.type # "numpy.int64"

\* The loop over enumerate(segments); i is the code's 0-based position.
RECURSIVE SegmentLoop(_, _, _, _, _, _, _)
SegmentLoop(segs, files, doc, i, base_filename, timestamp_col, fault) ==
  IF i >= Len(segs) THEN [raised |-> "none", files |-> files, metadata |-> doc]
  ELSE LET name == SegmentFilename(base_filename, i + 1)
           info == SegmentInfo(segs[i + 1], i, base_filename, timestamp_col)
       IN  IF fault.at = "csv_open" /\ fault.k = i + 1
           THEN [raised |-> "OSError", files |-> files, metadata |-> doc]
           ELSE IF fault.at = "csv_write" /\ fault.k = i + 1
           THEN [raised |-> "OSError",
                 files |-> WriteFile(files, name, Truncated), metadata |-> doc]
           ELSE SegmentLoop(segs, WriteFile(files, name, CsvFile(segs[i + 1])),
                            [doc EXCEPT !.segments = Append(@, info)],
                            i + 1, base_filename, timestamp_col, fault)

\* save_segment_files(segments, output_dir, base_filename, timestamp_col)
\* under the fault: the exception raised ("none": the metadata is
\* returned), the output directory afterwards and the metadata dict built.
save_segment_files(segs, dir, base_filename, timestamp_col, fault) ==
  LET doc0 == [total_segments |-> Len(segs), segments |-> <<>>]
      name == MetadataFilename(base_filename)
  IN  IF fault.at = "mkdir"
      THEN [raised |-> "OSError", fs |-> dir, metadata |-> doc0]
      ELSE
      LET loop == SegmentLoop(segs, dir.files, doc0, 0, base_filename,
                              timestamp_col, fault)
          made == [exists |-> TRUE, files |-> loop.files]
      IN  IF loop.raised # "none"
          THEN [raised |-> loop.raised, fs |-> made, metadata |-> loop.metadata]
          ELSE IF fault.at = "json_open"
          THEN [raised |-> "OSError", fs |-> made, metadata |-> loop.metadata]
          ELSE IF ~JsonSerializable(loop.metadata)
          THEN [raised |-> "TypeError",
                fs |-> [made EXCEPT !.files = WriteFile(@, name, Truncated)],
                metadata |-> loop.metadata]
          ELSE IF fault.at = "json_write"
          THEN [raised |-> "OSError",
                fs |-> [made EXCEPT !.files = WriteFile(@, name, Truncated)],
                metadata |-> loop.metadata]
          ELSE [raised |-> "none",
                fs |-> [made EXCEPT !.files =
                          WriteFile(@, name, JsonFile(loop.metadata))],
                metadata |-> loop.metadata]

\* ------------------------------------------------------------------ main
SeqsUpTo(S, n) == UNION {[1..k -> S] : k \in 0..n}

\* A table read from a CSV file with the columns timestamp and joint: the
\* timestamps ts in file order, joint holding the row's position in the file.
TimestampTable(ts, dtype) ==
  [columns |-> <<"timestamp", "joint">>,
   dtypes |-> [c \in {"timestamp", "joint"} |->
                 IF c = "timestamp" THEN dtype ELSE "int64"],
   index |-> [i \in 1..Len(ts) |-> i - 1],
   rows |-> [i \in 1..Len(ts) |->
               [c \in {"timestamp", "joint"} |->
                  IF c = "timestamp" THEN <<ts[i]>> ELSE <<i>>]]]

InputTables ==
  {TimestampTable(ts, dtype) :
     ts \in SeqsUpTo(0..MaxFileTime, MaxFileRows), dtype \in {"int64", "float64"}}

InputFiles ==
  {[readable |-> FALSE, table |-> Null]}
    \cup {[readable |-> TRUE, table |-> t] : t \in InputTables}

\* What an earlier run with the same base name left in the output directory.
OldTable == TimestampTable(<<7, 8>>, "float64")

EmptyDir == [exists |-> FALSE, files |-> NoFiles]

PriorRunDir ==
  save_segment_files(<<OldTable, OldTable>>, EmptyDir, "data", "timestamp",
                     [at |-> "none", k |-> 0]).fs

NoMetadata == [total_segments |-> 0, segments |-> <<>>]

NoRanking == [variations |-> <<>>, dominant |-> <<>>]

\* Path(args.input_file).stem
BaseFilename == "data"

Init ==
  /\ pc = "read"
  /\ input_file \in InputFiles
  /\ args \in [timestamp_col : {"timestamp", "time"}, threshold : 1..MaxThreshold]
  /\ fs0 \in {EmptyDir, PriorRunDir}
  /\ fs = fs0
  /\ df = Null
  /\ sorted_df = Null
  /\ segments = <<>>
  /\ raised = "none"
  /\ metadata = NoMetadata
  /\ stages = <<>>
  /\ messages = <<>>
  /\ result = "running"
  /\ ranking = NoRanking
  /\ out_df = Null

\* except Exception as e: ... return (CatchesOnlyOSError: except OSError)
CatchesOnlyOSError(exc) == exc = "OSError"

Catches(exc) == exc \in {"OSError", "ValueError", "TypeError"}

\* How main ends when a stage raised exc.
Ends(exc) == IF Catches(exc) THEN "returned" ELSE "unhandled"

\* df = pd.read_csv(args.input_file)
MainRead ==
  /\ pc = "read"
  /\ stages' = Append(stages, "read")
  /\ IF input_file.readable
     THEN /\ df' = input_file.table
          /\ raised' = "none"
          /\ messages' = Append(messages, "Loaded")
          /\ pc' = "segment"
          /\ result' = result
     ELSE /\ df' = df
          /\ raised' = "OSError"
          /\ messages' = Append(messages, "Error reading file")
          /\ pc' = "done"
          /\ result' = Ends("OSError")
  /\ UNCHANGED <<input_file, args, fs0, fs, sorted_df, segments, metadata,
                 ranking, out_df>>

\* segments = segment_data(df, args.timestamp_col, args.threshold)
MainSegment ==
  /\ pc = "segment"
  /\ stages' = Append(stages, "segment")
  /\ \E o \in segment_data(df, args.timestamp_col, args.threshold) :
       /\ raised' = o.raised
       /\ sorted_df' = o.sorted
       /\ segments' = o.segments
       /\ IF o.raised = "none"
          THEN /\ messages' = Append(messages, "Found")
               /\ pc' = "check"
               /\ result' = result
          ELSE /\ messages' = Append(messages, "Error segmenting data")
               /\ pc' = "done"
               /\ result' = Ends(o.raised)
  /\ UNCHANGED <<input_file, args, fs0, fs, df, metadata, ranking, out_df>>

\* if not segments: ... return
MainCheck ==
  /\ pc = "check"
  /\ IF segments = <<>>
     THEN /\ messages' = Append(messages, "No segments found")
          /\ pc' = "done"
          /\ result' = "returned"
     ELSE /\ messages' = messages
          /\ pc' = "save"
          /\ result' = result
  /\ UNCHANGED <<input_file, args, fs0, fs, df, sorted_df, segments, raised,
                 metadata, stages, ranking, out_df>>

\* metadata = save_segment_files(segments, args.output_dir, base_filename, ...)
MainSave ==
  /\ pc = "save"
  /\ stages' = Append(stages, "save")
  /\ \E fault \in Faults(Len(segments)) :
       LET r == save_segment_files(segments, fs, BaseFilename,
                                   args.timestamp_col, fault)
       IN  /\ fs' = r.fs
           /\ metadata' = r.metadata
           /\ raised' = r.raised
           /\ IF r.raised = "none"
              THEN /\ messages' = Append(messages, "Processing complete")
                   /\ result' = "returned"
              ELSE /\ messages' = Append(messages, "Error saving segments")
                   /\ result' = Ends(r.raised)
  /\ pc' = "done"
  /\ UNCHANGED <<input_file, args, fs0, df, sorted_df, segments, ranking, out_df>>

Next == MainRead \/ MainSegment \/ MainCheck \/ MainSave

Spec == Init /\ [][Next]_vars

\* ------------------------------------- segment_data and the writer, called
SegmentTables ==
  {TimestampTable(ts, "float64") : ts \in SeqsUpTo(0..MaxTime, MaxRows)}

InitSegment ==
  /\ pc = "call"
  /\ df \in SegmentTables
  /\ input_file = [readable |-> TRUE, table |-> df]
  /\ args \in [timestamp_col : {"timestamp", "time"}, threshold : 1..MaxThreshold]
  /\ fs0 = EmptyDir
  /\ fs = fs0
  /\ sorted_df = Null
  /\ segments = <<>>
  /\ raised = "none"
  /\ metadata = NoMetadata
  /\ stages = <<>>
  /\ messages = <<>>
  /\ result = "running"
  /\ ranking = NoRanking
  /\ out_df = Null

\* segment_data(df, timestamp_col, threshold)
CallSegmentData ==
  /\ pc = "call"
  /\ \E o \in segment_data(df, args.timestamp_col, args.threshold) :
       /\ raised' = o.raised
       /\ sorted_df' = o.sorted
       /\ segments' = o.segments
  /\ pc' = "segmented"
  /\ UNCHANGED <<input_file, args, fs0, fs, df, metadata, stages, messages,
                 result, ranking, out_df>>

\* save_segment_files(segments, output_dir, base_filename, timestamp_col) on
\* the segments returned, the environment raising no fault.
CallSaveSegmentFiles ==
  /\ pc = "segmented"
  /\ raised = "none"
  /\ LET r == save_segment_files(segments, fs, BaseFilename,
                                 args.timestamp_col, [at |-> "none", k |-> 0])
     IN  /\ fs' = r.fs
         /\ metadata' = r.metadata
         /\ raised' = r.raised
  /\ pc' = "saved"
  /\ UNCHANGED <<input_file, args, fs0, df, sorted_df, segments, stages,
                 messages, result, ranking, out_df>>

NextSegment == CallSegmentData \/ CallSaveSegmentFiles

SpecSegment == InitSegment /\ [][NextSegment]_vars

\* ---------------------------------------------------- claims: segment_data
\* The state after segment_data returned its segments.
Segmented == pc \in {"segmented", "saved"} /\ args.timestamp_col = "timestamp"

\* The timestamp of the row at 0-based position i of the sorted table.
T(i) == sorted_df.rows[i + 1]["timestamp"][1]

Labels(segment) == {segment.index[k] : k \in 1..NRows(segment)}

\* Position i of the sorted table is a run of its own: a gap above the
\* threshold on each side.
SingletonRun(i) ==
  /\ i = 0 \/ T(i) - T(i - 1) > args.threshold
  /\ i = NRows(sorted_df) - 1 \/ T(i + 1) - T(i) > args.threshold

\* C1: the segments returned are contiguous index ranges of the sorted
\* table with at least 2 rows each, ordered by start and pairwise disjoint,
\* and every row of the sorted table lies in exactly one of them or is a
\* discarded run of a single row.
C1_Partition ==
  Segmented =>
    /\ \A s \in 1..Len(segments) :
         LET seg == segments[s]
         IN  /\ NRows(seg) >= 2
             /\ \A k \in 1..NRows(seg) :
                  /\ seg.index[k] \in 0..(NRows(sorted_df) - 1)
                  /\ seg.rows[k] = sorted_df.rows[seg.index[k] + 1]
             /\ \A k \in 1..(NRows(seg) - 1) : seg.index[k + 1] = seg.index[k] + 1
    /\ \A s \in 1..(Len(segments) - 1) :
         segments[s].index[NRows(segments[s])] < segments[s + 1].index[1]
    /\ \A i \in 0..(NRows(sorted_df) - 1) :
         LET holders == {s \in 1..Len(segments) : i \in Labels(segments[s])}
         IN  \/ Cardinality(holders) = 1
             \/ holders = {} /\ SingletonRun(i)

\* C1 witness: a table given out of timestamp order, one segment of two
\* rows returned and two single rows discarded.
C1_Witness ==
  /\ Segmented
  /\ NRows(sorted_df) = 4
  /\ Len(segments) = 1
  /\ NRows(segments[1]) = 2
  /\ df.rows # sorted_df.rows

\* C2: two neighbouring rows of the sorted table lie in one returned segment
\* exactly when their timestamps differ by at most the threshold: inside a
\* segment no gap exceeds the threshold, every run starts after a gap above
\* it, and no run is cut at a gap of at most the threshold.
C2_GapBounded ==
  Segmented =>
    \A i \in 1..(NRows(sorted_df) - 1) :
      (T(i) - T(i - 1) <= args.threshold)
        <=> \E s \in 1..Len(segments) : {i - 1, i} \subseteq Labels(segments[s])

\* C2 witness: a gap equal to the threshold inside a segment and a larger
\* gap after it.
C2_Witness ==
  /\ Segmented
  /\ NRows(sorted_df) >= 3
  /\ T(1) - T(0) = args.threshold
  /\ T(2) - T(1) > args.threshold
  /\ Len(segments) >= 1

\* C5 (as claimed): rows with equal timestamps keep their order in the
\* input; joint holds a row's position in the input.
C5_StableSort ==
  Segmented =>
    \A i, j \in 1..NRows(sorted_df) :
      (i < j /\ sorted_df.rows[i]["timestamp"] = sorted_df.rows[j]["timestamp"])
        => sorted_df.rows[i]["joint"][1] < sorted_df.rows[j]["joint"][1]

\* C7: without the timestamp column segment_data raises ValueError with
\* nothing sorted, no segment returned and the table as it was; with the
\* column it does not raise it.
C7_MissingColumn ==
  pc = "segmented" =>
    IF args.timestamp_col \in ColumnSet(df)
    THEN raised = "none"
    ELSE /\ raised = "ValueError"
         /\ sorted_df = Null
         /\ segments = <<>>
         /\ df = input_file.table

\* C7 witness: the call on a table of several rows without the column.
C7_Witness ==
  /\ pc = "segmented"
  /\ args.timestamp_col \notin ColumnSet(df)
  /\ NRows(df) >= 2
  /\ raised = "ValueError"

SegMin(seg) == SeqMin([k \in 1..NRows(seg) |-> seg.rows[k]["timestamp"][1]])

SegMax(seg) == SeqMax([k \in 1..NRows(seg) |-> seg.rows[k]["timestamp"][1]])

\* C10: every record has 0 <= duration = end - start <= (sample_count - 1)
\* * threshold, start and end are the least and greatest timestamp of its
\* segment, and a record starts more than threshold after the one before
\* ends.
C10_Duration ==
  (pc = "saved" /\ args.timestamp_col = "timestamp") =>
    /\ Len(metadata.segments) = Len(segments)
    /\ \A k \in 1..Len(metadata.segments) :
         LET m == metadata.segments[k]
             lo == SegMin(segments[k])
             hi == SegMax(segments[k])
         IN  /\ m.start_time = Str(<<lo>>)
             /\ m.end_time = Str(<<hi>>)
             /\ m.duration_seconds.v = hi - lo
             /\ 0 <= m.duration_seconds.v
             /\ m.duration_seconds.v <= (m.sample_count - 1) * args.threshold
    /\ \A k \in 1..(Len(metadata.segments) - 1) :
         metadata.segments[k].end_time.v + args.threshold
           < metadata.segments[k + 1].start_time.v

\* C10 witness: two records, the first of positive duration.
C10_Witness ==
  /\ pc = "saved"
  /\ Len(metadata.segments) = 2
  /\ metadata.segments[1].duration_seconds.v > 0

\* ------------------------------------------------------------ claims: main
IsPrefix(s, t) == Len(s) <= Len(t) /\ s = SubSeq(t, 1, Len(s))

LastMessage == messages[Len(messages)]

Began(stage) == \E k \in 1..Len(stages) : stages[k] = stage

\* C8: the stages begin in the order read, segment, save; a stage that
\* fails, or an empty list of segments, is reported and ends the run with
\* main returning; no stage follows it, and without segments to save the
\* output directory is left as it was.
C8_StagesHalt ==
  /\ IsPrefix(stages, <<"read", "segment", "save">>)
  /\ result \in {"running", "returned"}
  /\ (pc = "done") <=> (result = "returned")
  /\ raised # "none" => pc = "done"
  /\ pc = "done" =>
       /\ ~input_file.readable =>
            /\ stages = <<"read">>
            /\ LastMessage = "Error reading file"
       /\ (input_file.readable /\ args.timestamp_col \notin ColumnSet(df)) =>
            /\ stages = <<"read", "segment">>
            /\ LastMessage = "Error segmenting data"
       /\ (input_file.readable /\ args.timestamp_col \in ColumnSet(df)
             /\ segments = <<>>) =>
            /\ stages = <<"read", "segment">>
            /\ LastMessage = "No segments found"
       /\ (Began("save") /\ raised # "none") =>
            LastMessage = "Error saving segments"
       /\ (Began("save") /\ raised = "none") =>
            LastMessage = "Processing complete"
  /\ ~Began("save") => fs = fs0 /\ metadata = NoMetadata

\* C8 witness: the run ended by a missing timestamp column, the prior
\* run's files in place.
C8_Witness ==
  /\ pc = "done"
  /\ raised = "ValueError"
  /\ NRows(df) >= 2
  /\ fs0 = PriorRunDir
  /\ result = "returned"

\* C9 (as claimed): after a run whose save failed, every file the prior
\* run left holds the prior run's content.
C9_PriorRunIntact ==
  (pc = "done" /\ Began("save") /\ raised # "none") =>
    \A f \in DOMAIN fs0.files :
      f \in DOMAIN fs.files /\ fs.files[f] = fs0.files[f]

\* ------------------------------------------------ tables of value columns
\* The value columns of the tables ranked, saved and differentiated are
\* drawn from kinds; Cell(kind, i) is the cell of row i (from 1) of a column
\* of the kind.  Kinds are those of the tables ranked.
Kinds == {"text", "missing", "single", "const", "ramp", "down", "gappy", "steep"}

Cell(kind, i) ==
  CASE kind = "missing" -> NaN
    [] kind = "single" -> IF i = 1 THEN <<1>> ELSE NaN
    [] kind = "const" -> <<1>>
    [] kind = "ramp" -> <<i - 1>>
    [] kind = "down" -> <<10 - i>>
    [] kind = "gappy" -> IF i % 2 = 0 THEN NaN ELSE <<i - 1>>
    [] kind = "steep" -> <<3 * (i - 1)>>
    [] kind = "square" -> <<i * i>>
    [] kind = "text" -> <<i>>

KindDtype(kind) ==
  CASE kind = "text" -> "object"
    [] kind \in {"missing", "single", "gappy"} -> "float64"
    [] OTHER -> "int64"

ColName(k) == "c" \o IntStr(k)

\* The table of n rows with the column timestamp (0, 1, 2, ...) followed by
\* one column c1, c2, ... per entry of kinds.
KindTable(n, kinds) ==
  LET names == {"timestamp"} \cup {ColName(k) : k \in 1..Len(kinds)}
      pos(c) == CHOOSE k \in 1..Len(kinds) : ColName(k) = c
  IN  [columns |-> <<"timestamp">> \o [k \in 1..Len(kinds) |-> ColName(k)],
       dtypes |-> [c \in names |->
                     IF c = "timestamp" THEN "float64" ELSE KindDtype(kinds[pos(c)])],
       index |-> [i \in 1..n |-> i - 1],
       rows |-> [i \in 1..n |->
                   [c \in names |->
                      IF c = "timestamp" THEN <<i - 1>> ELSE Cell(kinds[pos(c)], i)]]]

\* ------------------------------------------------------- the ranker, called
RankTables ==
  {KindTable(n, kinds) : n \in 0..MaxRankRows, kinds \in SeqsUpTo(Kinds, MaxRankCols)}

InitRank ==
  /\ pc = "call"
  /\ df \in RankTables
  /\ args \in [exclude_columns : {{"timestamp"}, {"timestamp", "c2"}},
               top_n : 0..MaxTopN]
  /\ input_file = [readable |-> TRUE, table |-> df]
  /\ fs0 = EmptyDir
  /\ fs = fs0
  /\ sorted_df = Null
  /\ segments = <<>>
  /\ raised = "none"
  /\ metadata = NoMetadata
  /\ stages = <<>>
  /\ messages = <<>>
  /\ result = "running"
  /\ ranking = NoRanking
  /\ out_df = Null

\* variations = calculate_column_variation(df, exclude_columns)
CallCalculateColumnVariation ==
  /\ pc = "call"
  /\ ranking' = [ranking EXCEPT
                   !.variations = calculate_column_variation(df, args.exclude_columns)]
  /\ pc' = "calculated"
  /\ UNCHANGED <<input_file, args, fs0, fs, df, sorted_df, segments, raised,
                 metadata, stages, messages, result, out_df>>

\* find_dominant_columns(variations, top_n)
CallFindDominantColumns ==
  /\ pc = "calculated"
  /\ ranking' = [ranking EXCEPT
                   !.dominant = find_dominant_columns(ranking.variations, args.top_n)]
  /\ pc' = "ranked"
  /\ UNCHANGED <<input_file, args, fs0, fs, df, sorted_df, segments, raised,
                 metadata, stages, messages, result, out_df>>

NextRank == CallCalculateColumnVariation \/ CallFindDominantColumns

SpecRank == InitRank /\ [][NextRank]_vars

\* ------------------------------------------------------- claims: the ranker
\* The position of column c in the table's header.
ColPos(d, c) == CHOOSE k \in 1..Len(d.columns) : d.columns[k] = c

\* The eligible columns: numeric, not excluded, with a value present.
Eligible(d, exclude_columns) ==
  {c \in ColumnSet(d) \ exclude_columns :
     /\ d.dtypes[c] \in {"int64", "float64"}
     /\ \E i \in 1..NRows(d) : d.rows[i][c] # NaN}

Score(d, c) == VariationOf(d, c).combined_score

\* Column a ranks before column b: a higher score, or the same score and
\* a earlier in the header.  Scores that are NaN are left out of the order.
RanksBefore(d, a, b) ==
  LET x == Score(d, a)
      y == Score(d, b)
  IN  (x.nan \/ y.nan) \/ x.p * y.q > y.p * x.q
        \/ (x.p * y.q = y.p * x.q /\ ColPos(d, a) < ColPos(d, b))

\* C3 (as claimed): the ranking is the eligible columns in descending order
\* of combined_score, equal scores in header order, cut to top_n; the order
\* is demanded only between columns whose scores are numbers.
C3_RankedDescending ==
  pc = "ranked" =>
    LET dom == ranking.dominant
        el == Eligible(df, args.exclude_columns)
        n == IF args.top_n < Cardinality(el) THEN args.top_n ELSE Cardinality(el)
    IN  /\ Len(dom) = n
        /\ \A k \in 1..Len(dom) : dom[k] \in el
        /\ \A k, l \in 1..Len(dom) : k < l =>
             dom[k] # dom[l] /\ RanksBefore(df, dom[k], dom[l])
        /\ \A c \in el : (\A k \in 1..Len(dom) : dom[k] # c) =>
             \A k \in 1..Len(dom) : RanksBefore(df, dom[k], c)

\* ------------------------------------------- save_segment_files, called
SaveKinds == {"text", "gappy", "steep"}

SaveTables ==
  {KindTable(MaxSaveRows, kinds) : kinds \in SeqsUpTo(SaveKinds, MaxSaveCols)}

\* The lists of segments cut from table d: none, the whole table, two
\* halves, and two single rows followed by the rest.
Layouts(d) ==
  {<<>>,
   <<Iloc(d, 0, NRows(d))>>,
   <<Iloc(d, 0, 2), Iloc(d, 2, NRows(d))>>,
   <<Iloc(d, 0, 1), Iloc(d, 1, 2), Iloc(d, 2, NRows(d))>>}

InitSave ==
  /\ pc = "call"
  /\ df \in SaveTables
  /\ segments \in Layouts(df)
  /\ args = [timestamp_col |-> "timestamp", threshold |-> 1]
  /\ input_file = [readable |-> TRUE, table |-> df]
  /\ fs0 = PriorRunDir
  /\ fs = fs0
  /\ sorted_df = df
  /\ raised = "none"
  /\ metadata = NoMetadata
  /\ stages = <<>>
  /\ messages = <<>>
  /\ result = "running"
  /\ ranking = NoRanking
  /\ out_df = Null

\* save_segment_files(segments, output_dir, base_filename, timestamp_col)
CallSave ==
  /\ pc = "call"
  /\ \E fault \in Faults(Len(segments)) :
       LET r == save_segment_files(segments, fs, BaseFilename,
                                   args.timestamp_col, fault)
       IN  /\ fs' = r.fs
           /\ metadata' = r.metadata
           /\ raised' = r.raised
  /\ pc' = "saved"
  /\ UNCHANGED <<input_file, args, fs0, df, sorted_df, segments, stages,
                 messages, result, ranking, out_df>>

NextSave == CallSave

SpecSave == InitSave /\ [][NextSave]_vars

\* ------------------------------------------------------- claims: the writer
NumericColumns(d) == {c \in ColumnSet(d) : d.dtypes[c] \in {"int64", "float64"}}

\* C4: when save_segment_files returns, total_segments counts the records,
\* the metadata returned is the document written, and each record has the
\* sample_count of the rows in its segment's file, at most 5 dominant
\* columns, all numeric and none the timestamp column, and variation
\* records for exactly the dominant columns.
C4_MetadataConsistent ==
  (pc = "saved" /\ raised = "none") =>
    /\ metadata.total_segments = Len(metadata.segments)
    /\ Len(metadata.segments) = Len(segments)
    /\ fs.files[MetadataFilename(BaseFilename)] = JsonFile(metadata)
    /\ \A k \in 1..Len(metadata.segments) :
         LET m == metadata.segments[k]
         IN  /\ m.filename \in DOMAIN fs.files
             /\ fs.files[m.filename].kind = "csv"
             /\ fs.files[m.filename].rows = segments[k].rows
             /\ m.sample_count = Len(fs.files[m.filename].rows)
             /\ Len(m.dominant_columns) <= 5
             /\ \A j \in 1..Len(m.dominant_columns) :
                  /\ m.dominant_columns[j] \in NumericColumns(segments[k])
                  /\ m.dominant_columns[j] # args.timestamp_col
             /\ Len(m.column_variations) = Len(m.dominant_columns)
             /\ \A j \in 1..Len(m.dominant_columns) :
                  m.column_variations[j].col = m.dominant_columns[j]

\* C4 witness: two segments saved, the first with six rankable columns of
\* which five are recorded.
C4_Witness ==
  /\ pc = "saved"
  /\ raised = "none"
  /\ Len(metadata.segments) = 2
  /\ Len(calculate_column_variation(segments[1], {"timestamp"})) = 6
  /\ Len(metadata.segments[1].dominant_columns) = 5

\* ------------------------------------------------------------------ roc.py
\* Series.diff(): NaN in the first row and wherever a term is missing
\* (DiffForward: the difference to the next row in place of the previous).
DiffForward(series) ==
  [i \in 1..Len(series) |->
     IF i = Len(series) \/ series[i] = NaN \/ series[i + 1] = NaN THEN NaN
     ELSE <<series[i + 1][1] - series[i][1]>>]

Diff(series) ==
  [i \in 1..Len(series) |->
     IF i = 1 \/ series[i] = NaN \/ series[i - 1] = NaN THEN NaN
     ELSE <<series[i][1] - series[i - 1][1]>>]

\* a / b on float cells: <<n, d>> is the quotient n / d; 0 / 0 is NaN and
\* n / 0 an infinity of the sign of n.
DivCell(a, b) ==
  IF a = NaN \/ b = NaN THEN NaN
  ELSE IF b[1] = 0
       THEN IF a[1] = 0 THEN NaN ELSE <<IF a[1] > 0 THEN 1 ELSE -1, 0>>
       ELSE <<a[1], b[1]>>

Column(d, col) == [i \in 1..NRows(d) |-> d.rows[i][col]]

\* df[name] = series, name a new column.
AddColumn(d, name, series, dtype) ==
  [columns |-> Append(d.columns, name),
   dtypes |-> (name :> dtype) @@ d.dtypes,
   index |-> d.index,
   rows |-> [i \in 1..NRows(d) |-> (name :> series[i]) @@ d.rows[i]]]

\* col.endswith(suffix)
EndsWith(col, suffix) ==
  /\ Len(col) >= Len(suffix)
  /\ SubSeq(col, Len(col) - Len(suffix) + 1, Len(col)) = suffix

\* The columns the loop skips.
RocSkips(col) == col = "timestamp" \/ EndsWith(col, "_hat")

\* df.dropna(): the rows without a missing value, with their labels.
DropNaRows(d) ==
  LET keep == {i \in 1..NRows(d) : \A c \in ColumnSet(d) : d.rows[i][c] # NaN}
      pick == SelectSeq([i \in 1..NRows(d) |-> i], LAMBDA i : i \in keep)
  IN  [d EXCEPT !.rows = [k \in 1..Len(pick) |-> d.rows[pick[k]]],
                !.index = [k \in 1..Len(pick) |-> d.index[pick[k]]]]

\* The loop over df.columns (the header as it was when the loop began): a
\* frame, or the exception raised by diff() of a column of strings.
RECURSIVE DerivativeLoop(_, _, _, _)
DerivativeLoop(d, header, k, dt) ==
  IF k > Len(header) THEN [raised |-> "none", df |-> d]
  ELSE LET col == header[k]
       IN  IF RocSkips(col) THEN DerivativeLoop(d, header, k + 1, dt)
           ELSE IF ~IsNumericDtype(d.dtypes[col])
           THEN [raised |-> "TypeError", df |-> d]
           ELSE LET dcol == Diff(Column(d, col))
                    rate == [i \in 1..NRows(d) |-> DivCell(dcol[i], dt[i])]
                IN  DerivativeLoop(AddColumn(d, "d_" \o col \o "__dt", rate, "float64"),
                                   header, k + 1, dt)

\* The script: the exception that ends it, or the table it writes.
Roc(d) ==
  IF "timestamp" \notin ColumnSet(d) THEN [raised |-> "KeyError", df |-> Null]
  ELSE LET dt == Diff(Column(d, "timestamp"))
           loop == DerivativeLoop(d, d.columns, 1, dt)
       IN  IF loop.raised # "none" THEN [raised |-> loop.raised, df |-> Null]
           ELSE [raised |-> "none", df |-> ResetIndex(DropNaRows(loop.df))]

RocKinds == {"text", "gappy", "square"}

RocColName(k, col) == ColName(k) \o (IF col.hat THEN "_hat" ELSE "")

\* The table of test.csv: the timestamps ts and one column per entry of
\* cols, a [kind, hat] record; a column with hat has a name ending in _hat.
RocTable(ts, cols) ==
  LET names == {"timestamp"} \cup {RocColName(k, cols[k]) : k \in 1..Len(cols)}
      pos(c) == CHOOSE k \in 1..Len(cols) : RocColName(k, cols[k]) = c
  IN  [columns |-> <<"timestamp">> \o [k \in 1..Len(cols) |-> RocColName(k, cols[k])],
       dtypes |-> [c \in names |->
                     IF c = "timestamp" THEN "float64" ELSE KindDtype(cols[pos(c)].kind)],
       index |-> [i \in 1..Len(ts) |-> i - 1],
       rows |-> [i \in 1..Len(ts) |->
                   [c \in names |->
                      IF c = "timestamp" THEN <<ts[i]>> ELSE Cell(cols[pos(c)].kind, i)]]]

\* A table whose time column is not named timestamp.
NoTimestampTable ==
  [columns |-> <<"time">>, dtypes |-> [c \in {"time"} |-> "float64"],
   index |-> <<0>>, rows |-> <<[c \in {"time"} |-> <<0>>]>>]

RocTables ==
  {NoTimestampTable} \cup
  {RocTable(ts, cols) :
     ts \in SeqsUpTo(0..MaxRocTime, MaxRocRows),
     cols \in SeqsUpTo([kind : RocKinds, hat : BOOLEAN], MaxRocCols)}

InitRoc ==
  /\ pc = "start"
  /\ input_file \in {[readable |-> TRUE, table |-> t] : t \in RocTables}
  /\ df = Null
  /\ args = [timestamp_col |-> "timestamp", threshold |-> 1]
  /\ fs0 = EmptyDir
  /\ fs = fs0
  /\ sorted_df = Null
  /\ segments = <<>>
  /\ raised = "none"
  /\ metadata = NoMetadata
  /\ stages = <<>>
  /\ messages = <<>>
  /\ result = "running"
  /\ ranking = NoRanking
  /\ out_df = Null

\* df = pd.read_csv("test.csv")
RocLoad ==
  /\ pc = "start"
  /\ df' = input_file.table
  /\ pc' = "loaded"
  /\ UNCHANGED <<input_file, args, fs0, fs, sorted_df, segments, raised,
                 metadata, stages, messages, result, ranking, out_df>>

\* The derivative columns, dropna, reset_index and to_csv.
RocTransform ==
  /\ pc = "loaded"
  /\ LET r == Roc(df)
     IN  /\ raised' = r.raised
         /\ out_df' = r.df
  /\ pc' = "written"
  /\ UNCHANGED <<input_file, args, fs0, fs, df, sorted_df, segments, metadata,
                 stages, messages, result, ranking>>

NextRoc == RocLoad \/ RocTransform

SpecRoc == InitRoc /\ [][NextRoc]_vars

\* -------------------------------------------------------- claims: roc.py
\* The script has run on a table of N >= 1 rows with at least one value
\* column, whose timestamps increase strictly and whose value columns are
\* numeric without a missing value.
RocCase ==
  /\ pc = "written"
  /\ "timestamp" \in ColumnSet(df)
  /\ Len(df.columns) >= 2
  /\ NRows(df) >= 1
  /\ \A i \in 1..(NRows(df) - 1) :
       df.rows[i]["timestamp"][1] < df.rows[i + 1]["timestamp"][1]
  /\ \A c \in ColumnSet(df) :
       /\ df.dtypes[c] \in {"int64", "float64"}
       /\ \A i \in 1..NRows(df) : df.rows[i][c] # NaN

Differentiated(d) == {c \in ColumnSet(d) : c # "timestamp" /\ ~EndsWith(c, "_hat")}

\* The output is rows first+1 .. N of the input, labelled from 0, with the
\* input's columns first and, for each differentiated column c, the
\* quotient (c[i] - c[i-1]) / (t[i] - t[i-1]) in the row that holds row i.
RocOutput(first) ==
  /\ raised = "none"
  /\ NRows(out_df) = NRows(df) - first
  /\ out_df.index = [k \in 1..NRows(out_df) |-> k - 1]
  /\ SubSeq(out_df.columns, 1, Len(df.columns)) = df.columns
  /\ ColumnSet(out_df) = ColumnSet(df) \cup {"d_" \o c \o "__dt" : c \in Differentiated(df)}
  /\ \A k \in 1..NRows(out_df) :
       LET i == k + first
       IN  /\ \A c \in ColumnSet(df) : out_df.rows[k][c] = df.rows[i][c]
           /\ \A c \in Differentiated(df) :
                out_df.rows[k]["d_" \o c \o "__dt"]
                  = <<df.rows[i][c][1] - df.rows[i - 1][c][1],
                      df.rows[i]["timestamp"][1] - df.rows[i - 1]["timestamp"][1]>>

\* C6 (as claimed): the output has the N - 1 rows after row 0.
C6_AlwaysDropsRow0 == RocCase => RocOutput(1)

\* C6 (amended): with a column to differentiate the output has the N - 1
\* rows after row 0, each derivative the exact finite difference; with none
\* (every value column named *_hat) it has all N rows.
C6_Derivative ==
  RocCase => IF Differentiated(df) # {} THEN RocOutput(1) ELSE RocOutput(0)

\* C6 witness: three rows, a differentiated column and a column named *_hat.
C6_Witness ==
  /\ RocCase
  /\ NRows(df) = 3
  /\ Len(df.columns) = 3
  /\ Cardinality(Differentiated(df)) = 1
  /\ NRows(out_df) = 2

====
